---- MODULE Spec2Model ----
(***************************************************************************)
(* Model of src/src/hex/index.js: the hex factory builder (createFactory,  *)
(* exported as extendHex) and the bound constructor Hex it returns.        *)
(*                                                                         *)
(* JavaScript values are records [t, v]: t is the type tag that axis.js    *)
(* tests (Object.prototype.toString), v the payload.  Negative zero is a   *)
(* number of its own ("negzero").  Objects live on a heap and are passed   *)
(* by reference; an array argument is an index into the table ArrayLits.   *)
(* A property that is absent and a property that holds undefined are the   *)
(* same thing here (the value Undefined).                                  *)
(***************************************************************************)
EXTENDS Integers, Sequences, FiniteSets, TLC

VARIABLES factories, heap, last

vars == <<factories, heap, last>>

\* Bounds of the exploration.
MaxFactories == 2
MaxObjs == 2

---------------------------------------------------------------------------
\* JavaScript values

Undefined == [t |-> "undefined", v |-> 0]
Null == [t |-> "null", v |-> 0]
Str == [t |-> "string", v |-> 0]
NegZero == [t |-> "negzero", v |-> 0]
Num(n) == [t |-> "number", v |-> n]
Ref(i) == [t |-> "object", v |-> i]
Arr(i) == [t |-> "array", v |-> i]

\* the object a defaulted parameter `customProps = {}` or the literal `{}` makes:
\* a fresh object nobody else holds
EmptyObject == [t |-> "fresh", v |-> 0]

\* axis.js type tests, as imported on line 1
isObject(a) == a.t = "object"
isArray(a) == a.t = "array"
isNumber(a) == a.t \in {"number", "negzero"}

\* ../utils: -0 becomes 0, every other value is returned as it is
unsignNegativeZero(a) == IF a.t = "negzero" THEN Num(0) ELSE a

\* the mathematical value of a number
ValueOf(a) == a.v

Keys == {"x", "y", "z", "custom"}
NoProps == [k \in Keys |-> Undefined]

\* the array literals a caller passes
ArrayLits ==
    << << >>,
       << Num(1) >>,
       << Undefined, Num(2) >>,
       << Num(1), Num(2) >>,
       << NegZero, Num(2), Num(5) >> >>

\* destructuring [x, y] = xOrProps: a missing entry is undefined
Elem(a, i) == IF i <= Len(ArrayLits[a.v]) THEN ArrayLits[a.v][i] ELSE Undefined

\* ({ x, y: x } = xOrProps): both coordinates read from x
GetReadsX(h, o, k) == h[o.v].props["x"]

\* destructuring ({ x, y } = xOrProps) on a heap object (no prototype of the
\* model carries x or y, so the own property decides)
Get(h, o, k) == h[o.v].props[k]

---------------------------------------------------------------------------
\* createFactory (extendHex)

\* ./constants
ORIENTATIONS == [POINTY |-> "POINTY", FLAT |-> "FLAT"]

\* what Point accepts here: a number n (as on line 57) or a point {x, y}
NumberArg(n) == [t |-> "number", x |-> n, y |-> 0]
PointArg(a, b) == [t |-> "point", x |-> a, y |-> b]

\* ../point: a single number gives both coordinates, a point is copied
Point(p) == IF p.t = "number" THEN [x |-> p.x, y |-> p.x] ELSE [x |-> p.x, y |-> p.y]

\* the configuration objects a caller passes to the builder; `has` is the set of
\* keys the object carries, the other fields hold the values of those keys
Config(has, orientation, origin, size, custom) ==
    [has |-> has, orientation |-> orientation, origin |-> origin,
     size |-> size, custom |-> custom]

Configs ==
    { Config({}, "POINTY", NumberArg(0), 1, Undefined),
      Config({"orientation", "origin", "size", "custom"}, "FLAT", PointArg(3, 4), 50, Num(7)) }

\* lines 51-79, the properties (the methods come from ./prototype)
defaultPrototype ==
    [isHoneycombHex |-> TRUE,
     orientation |-> ORIENTATIONS.POINTY,
     origin |-> NumberArg(0),
     size |-> 1,
     custom |-> Undefined]

\* lines 8-10
staticMethods == {"thirdCoordinate"}

\* the assignment the other way round: the defaults overwrite the configuration
assignPrototypeDefaultsWin(target, source) == target

\* Object.assign(defaultPrototype, prototype), line 80
assignPrototype(target, source) ==
    [isHoneycombHex |-> target.isHoneycombHex,
     orientation |-> IF "orientation" \in source.has THEN source.orientation
                     ELSE target.orientation,
     origin |-> IF "origin" \in source.has THEN source.origin ELSE target.origin,
     size |-> IF "size" \in source.has THEN source.size ELSE target.size,
     custom |-> IF "custom" \in source.has THEN source.custom ELSE target.custom]

\* lines 50-85 and 176: what the returned Hex closes over (the parameter and
\* the final prototype) and the statics attached to Hex
createFactory(prototype) ==
    LET finalPrototype == assignPrototype(defaultPrototype, prototype)
    IN  [prototype |-> prototype,
         finalPrototype |-> [finalPrototype EXCEPT !.origin = Point(@)],
         statics |-> staticMethods]

---------------------------------------------------------------------------
\* Hex

\* customProps = {} forgotten in the array branch
extractKeepsCustomProps(xOrProps, y, customProps) ==
    IF isArray(xOrProps)
    THEN [x |-> Elem(xOrProps, 1), y |-> Elem(xOrProps, 2), customProps |-> customProps]
    ELSE [x |-> xOrProps, y |-> y, customProps |-> customProps]

\* lines 146-152: x, y and customProps for array and scalar input
extract(xOrProps, y, customProps) ==
    IF isArray(xOrProps)
    THEN [x |-> Elem(xOrProps, 1), y |-> Elem(xOrProps, 2), customProps |-> EmptyObject]
    ELSE [x |-> xOrProps, y |-> y, customProps |-> customProps]

\* case 1 without its break: it falls through to the default
inferCoordinatesFallThrough(x, y) ==
    IF isNumber(x) /\ isNumber(y) THEN [x |-> x, y |-> y]
    ELSE [x |-> Num(0), y |-> Num(0)]

\* lines 156-165
inferCoordinates(x, y) ==
    LET n == (IF isNumber(x) THEN 1 ELSE 0) + (IF isNumber(y) THEN 1 ELSE 0)
    IN  IF n = 2 THEN [x |-> x, y |-> y]
        ELSE IF n = 1
        THEN LET x1 == IF isNumber(x) THEN x ELSE y
                 y1 == IF isNumber(y) THEN y ELSE x1
             IN  [x |-> x1, y |-> y1]
        ELSE [x |-> Num(0), y |-> Num(0)]

\* own enumerable properties of a value used as an Object.assign source or
\* target: a heap object's own, none for undefined, a fresh object or the
\* wrapper of a number
OwnProps(h, a) == IF isObject(a) THEN h[a.v].props ELSE NoProps

\* Object.assign(customProps, { x, y }), line 172: null cannot be a target
\* (TypeError); a heap object is written in place
assignCoordinates(h, customProps, x, y) ==
    LET props == [OwnProps(h, customProps) EXCEPT !["x"] = x, !["y"] = y]
    IN  IF customProps = Null
        THEN [threw |-> TRUE, heap |-> h, props |-> NoProps]
        ELSE [threw |-> FALSE,
              heap |-> IF isObject(customProps)
                       THEN [h EXCEPT ![customProps.v].props = props]
                       ELSE h,
              props |-> props]

\* Object.assign(this, ...): the merge also written to the receiver
createIntoThis(h, f, this, source) ==
    LET own == OwnProps(h, this)
        props == [k \in Keys |-> IF source[k] # Undefined THEN source[k] ELSE own[k]]
    IN  Append(IF isObject(this) THEN [h EXCEPT ![this.v].props = props] ELSE h,
               [props |-> props, proto |-> f])

\* Object.assign(Object.create(finalPrototype), this, source), lines 167-173:
\* a new object whose prototype is the constructor's, with the own properties
\* of `this` overwritten by those of source
create(h, f, this, source) ==
    LET own == OwnProps(h, this)
        props == [k \in Keys |-> IF source[k] # Undefined THEN source[k] ELSE own[k]]
    IN  Append(h, [props |-> props, proto |-> f])

\* lines 138-174.  The module is strict code, so `this` of the recursive call
\* Hex(x, y, xOrProps) is undefined.
RECURSIVE Hex(_, _, _, _, _, _)
Hex(f, this, xOrProps, y, customProps, h) ==
    IF isObject(xOrProps)
    THEN Hex(f, Undefined, Get(h, xOrProps, "x"), Get(h, xOrProps, "y"), xOrProps, h)
    ELSE LET e == extract(xOrProps, y,
                          IF customProps = Undefined THEN EmptyObject ELSE customProps)
             c == inferCoordinates(unsignNegativeZero(e.x), unsignNegativeZero(e.y))
             a == assignCoordinates(h, e.customProps, c.x, c.y)
         IN  IF a.threw
             THEN [threw |-> TRUE, heap |-> h, result |-> 0]
             ELSE [threw |-> FALSE,
                   heap |-> create(a.heap, f, this, a.props),
                   result |-> Len(h) + 1]

---------------------------------------------------------------------------
\* The callers: what a program holding the builder can do

\* the object literals a caller writes (line 104: any of x, y and z and any
\* custom properties)
Literal(x, y, z, custom) == [NoProps EXCEPT !["x"] = x, !["y"] = y, !["z"] = z,
                                            !["custom"] = custom]

ObjectLits ==
    { Literal(Undefined, Undefined, Undefined, Undefined),
      Literal(Num(1), Undefined, Undefined, Num(7)),
      Literal(Null, Num(2), NegZero, Undefined),
      Literal(Num(1), Num(2), Num(5), Undefined),
      Literal(NegZero, Num(2), Num(5), Num(7)) }

Scalars == {Undefined, Null, Str, NegZero, Num(1)}
SecondArgs == {Undefined, NegZero, Num(2)}
ThirdArgs == {Undefined, Null, Num(5)}

Refs == {Ref(i) : i \in 1..Len(heap)}
Hexes == {r \in Refs : heap[r.v].proto # 0}
Arrays == {Arr(i) : i \in 1..Len(ArrayLits)}
Receivers == {Undefined} \cup Hexes

NoCall ==
    [op |-> "none", f |-> 0, this |-> Undefined, xOrProps |-> Undefined,
     y |-> Undefined, customProps |-> Undefined, pre |-> << >>,
     result |-> 0, threw |-> FALSE]

\* one constructor has been built: const Hex = extendHex(prototype)
Init ==
    /\ \E prototype \in Configs : factories = << createFactory(prototype) >>
    /\ heap = << >>
    /\ last = NoCall

\* nothing has been built yet
InitBuilder ==
    /\ factories = << >>
    /\ heap = << >>
    /\ last = NoCall

\* const Hex = extendHex(prototype)
ExtendHex(prototype) ==
    /\ last.op = "none"
    /\ Len(factories) < MaxFactories
    /\ factories' = Append(factories, createFactory(prototype))
    /\ last' = [NoCall EXCEPT !.op = "extendHex", !.f = Len(factories) + 1]
    /\ UNCHANGED heap

\* const o = { ... }
NewObject(props) ==
    /\ last.op = "none"
    /\ Len(heap) < MaxObjs
    /\ heap' = Append(heap, [props |-> props, proto |-> 0])
    /\ last' = [NoCall EXCEPT !.op = "literal", !.result = Len(heap) + 1]
    /\ UNCHANGED factories

\* Hex.call(this, xOrProps, y, customProps) on the f-th constructor built;
\* last records the call, the heap it was entered with and what it returned
CallHex(f, this, xOrProps, y, customProps) ==
    /\ last.op = "none"
    /\ Len(heap) < MaxObjs
    /\ LET r == Hex(f, this, xOrProps, y, customProps, heap)
       IN  /\ heap' = r.heap
           /\ last' = [op |-> "Hex", f |-> f, this |-> this, xOrProps |-> xOrProps,
                       y |-> y, customProps |-> customProps, pre |-> heap,
                       result |-> r.result, threw |-> r.threw]
    /\ UNCHANGED factories

\* Hex.call(this, { ... }): the object literal is written in the call, so
\* nobody holds it once Hex has returned and only the result stays on the heap
\* (last.xOrProps refers to the literal in last.pre, the heap Hex was entered with)
CallHexLiteral(f, this, props) ==
    /\ last.op = "none"
    /\ Len(heap) < MaxObjs
    /\ LET o == Len(heap) + 1
           pre == Append(heap, [props |-> props, proto |-> 0])
           r == Hex(f, this, Ref(o), Undefined, Undefined, pre)
       IN  /\ heap' = Append(heap, r.heap[r.result])
           /\ last' = [op |-> "HexLiteral", f |-> f, this |-> this,
                       xOrProps |-> Ref(o), y |-> Undefined,
                       customProps |-> Undefined, pre |-> pre,
                       result |-> o, threw |-> r.threw]
    /\ UNCHANGED factories

\* the caller goes on to its next statement
Continue ==
    /\ last.op # "none"
    /\ last' = NoCall
    /\ UNCHANGED <<factories, heap>>

\* a program that holds one constructor
Next ==
    \/ \E props \in ObjectLits : NewObject(props)
    \/ \E this \in Receivers, xOrProps \in Scalars, y \in SecondArgs,
          customProps \in ThirdArgs \cup Refs :
            CallHex(1, this, xOrProps, y, customProps)
    \/ \E this \in Receivers, xOrProps \in Arrays \cup Refs, y \in {Undefined, Num(2)},
          customProps \in {Undefined, Null} \cup Refs :
            CallHex(1, this, xOrProps, y, customProps)
    \/ \E this \in Receivers, props \in ObjectLits : CallHexLiteral(1, this, props)
    \/ Continue

Spec == Init /\ [][Next]_vars

\* a program that builds constructors and makes and clones hexes with them
NextBuilder ==
    \/ \E prototype \in Configs : ExtendHex(prototype)
    \/ \E f \in 1..Len(factories), y \in {Undefined, Num(2)} :
            CallHex(f, Undefined, Num(1), y, Undefined)
    \/ \E f \in 1..Len(factories), this \in {Undefined} \cup Hexes, xOrProps \in Refs :
            CallHex(f, this, xOrProps, Undefined, Undefined)
    \/ \E f \in 1..Len(factories), props \in ObjectLits :
            CallHexLiteral(f, Undefined, props)
    \/ Continue

SpecBuilder == InitBuilder /\ [][NextBuilder]_vars

---------------------------------------------------------------------------
\* Properties of the constructor

\* the last step was a call of Hex that returned
Returned == last.op \in {"Hex", "HexLiteral"} /\ ~last.threw

\* the hex the last call returned
Result == heap[last.result].props

\* the own properties an argument had when Hex was entered
ArgProps(a) == OwnProps(last.pre, a)

\* the pair (x, y) the call's input form denotes
GivenX ==
    IF isObject(last.xOrProps) THEN ArgProps(last.xOrProps)["x"]
    ELSE IF isArray(last.xOrProps) THEN Elem(last.xOrProps, 1)
    ELSE last.xOrProps

GivenY ==
    IF isObject(last.xOrProps) THEN ArgProps(last.xOrProps)["y"]
    ELSE IF isArray(last.xOrProps) THEN Elem(last.xOrProps, 2)
    ELSE last.y

\* a and b are numbers of the same value (0 and -0 are the same value)
SameNumber(a, b) == isNumber(a) /\ isNumber(b) /\ ValueOf(a) = ValueOf(b)

\* C1: every hex Hex returns has x, y and z as numbers and x + y + z = 0.
CubeInvariant ==
    Returned =>
        /\ isNumber(Result["x"]) /\ isNumber(Result["y"]) /\ isNumber(Result["z"])
        /\ ValueOf(Result["x"]) + ValueOf(Result["y"]) + ValueOf(Result["z"]) = 0

\* C2: no coordinate x, y or z of a hex Hex returns is negative zero.
NoNegativeZero ==
    Returned => \A k \in {"x", "y", "z"} : Result[k] # NegZero

ThirdArgumentIgnored ==
    ( /\ Returned
      /\ last.op = "Hex"
      /\ isNumber(last.xOrProps) /\ isNumber(last.y) /\ isNumber(last.customProps) )
    => /\ SameNumber(Result["x"], last.xOrProps)
       /\ SameNumber(Result["y"], last.y)
       /\ isNumber(Result["z"])
       /\ ValueOf(Result["z"]) = -(ValueOf(last.xOrProps) + ValueOf(last.y))

\* C5: Hex raises no error, whatever its arguments.
NeverThrows ==
    last.op \in {"Hex", "HexLiteral"} => ~last.threw

\* C6: for an object o with numeric x and y, Hex(o) has x = o.x, y = o.y and
\* z = -(o.x + o.y) whatever o.z is, and carries o's other properties.
ObjectThirdCoordinateDerived ==
    ( /\ Returned
      /\ isObject(last.xOrProps)
      /\ isNumber(GivenX) /\ isNumber(GivenY) )
    => /\ SameNumber(Result["x"], GivenX)
       /\ SameNumber(Result["y"], GivenY)
       /\ isNumber(Result["z"])
       /\ ValueOf(Result["z"]) = -(ValueOf(GivenX) + ValueOf(GivenY))
       /\ Result["custom"] = ArgProps(last.xOrProps)["custom"]

\* C7: Hex(h), for a hex h of the same constructor, returns another object
\* with h's x, y, z and custom properties and h's prototype.
CloneIsIndependentCopy ==
    ( /\ Returned
      /\ last.op = "Hex"
      /\ isObject(last.xOrProps)
      /\ last.pre[last.xOrProps.v].proto = last.f )
    => /\ last.result # last.xOrProps.v
       /\ Result = ArgProps(last.xOrProps)
       /\ heap[last.result].proto = last.pre[last.xOrProps.v].proto

\* a hex with a custom property has been cloned
CloneWitness ==
    /\ Returned
    /\ last.op = "Hex"
    /\ isObject(last.xOrProps)
    /\ last.pre[last.xOrProps.v].proto = last.f
    /\ ArgProps(last.xOrProps)["custom"] = Num(7)
    /\ Result["custom"] = Num(7)

\* C8: for an array a, Hex(a, y2, props) returns what Hex(a) returns: x and y
\* come from the first two entries and nothing of y2 or props reaches the hex.
ArrayDiscardsCustomProps ==
    ( last.op = "Hex" /\ isArray(last.xOrProps) )
    => /\ ~last.threw
       /\ LET alone == Hex(last.f, last.this, last.xOrProps, Undefined, Undefined,
                           last.pre)
          IN  Result = alone.heap[alone.result].props
       /\ isNumber(GivenX) /\ isNumber(GivenY)
            => SameNumber(Result["x"], GivenX) /\ SameNumber(Result["y"], GivenY)
       /\ last.this = Undefined
            => Result["z"] = Undefined /\ Result["custom"] = Undefined

\* an array was passed together with a y and an object carrying a custom property
ArrayWitness ==
    /\ Returned
    /\ isArray(last.xOrProps)
    /\ last.y = Num(2)
    /\ isObject(last.customProps)
    /\ ArgProps(last.customProps)["custom"] = Num(7)
    /\ Len(ArrayLits[last.xOrProps.v]) = 1
    /\ Result["y"] = Num(1)

\* the prototype fields a configuration asks for: its own keys over the defaults
\* POINTY, the zero point and 1
ConfiguredPrototype(c) ==
    [isHoneycombHex |-> TRUE,
     orientation |-> IF "orientation" \in c.has THEN c.orientation ELSE "POINTY",
     origin |-> IF "origin" \in c.has THEN Point(c.origin) ELSE [x |-> 0, y |-> 0],
     size |-> IF "size" \in c.has THEN c.size ELSE 1,
     custom |-> IF "custom" \in c.has THEN c.custom ELSE Undefined]

\* C9: a hex has the prototype of the constructor that made it, and every
\* constructor's prototype holds its configuration over the defaults, whatever
\* was built or constructed since.
PrototypePerConstructor ==
    /\ \A i \in 1..Len(heap) : heap[i].proto \in 0..Len(factories)
    /\ Returned => heap[last.result].proto = last.f
    /\ \A f \in 1..Len(factories) :
         factories[f].finalPrototype = ConfiguredPrototype(factories[f].prototype)

\* two constructors with different configurations, each having made a hex
PrototypeWitness ==
    /\ Len(factories) >= 2
    /\ factories[1].prototype.has = {}
    /\ factories[2].prototype.has # {}
    /\ factories[2].finalPrototype.size = 50
    /\ Returned
    /\ last.f = 1
    /\ \E i \in 1..Len(heap) : heap[i].proto = 2

\* C10 as stated: every object passed as first or third argument has the same
\* own properties after the call as before.
ArgumentsUnchanged ==
    last.op = "Hex" =>
        \A a \in {last.xOrProps, last.customProps} :
            isObject(a) => heap[a.v] = last.pre[a.v]

\* the object Object.assign(customProps, { x, y }) writes to, 0 if it is not an
\* argument: the first argument when an object, else the third when an object
\* and the first is no array
MergeTarget ==
    IF isObject(last.xOrProps) THEN last.xOrProps.v
    ELSE IF ~isArray(last.xOrProps) /\ isObject(last.customProps)
    THEN last.customProps.v
    ELSE 0

\* C10 amended: a call changes nothing of the objects that existed before it
\* but x and y of the object the coordinates are merged into, which become
\* the returned hex's x and y.  (A literal written in the call is gone after
\* it: last.xOrProps of such a call names no object of the heap.)
ArgumentsFrame ==
    last.op \in {"Hex", "HexLiteral"} =>
        \A i \in 1..Len(last.pre) :
            IF last.op = "HexLiteral" /\ i = last.xOrProps.v
            THEN TRUE
            ELSE IF i = MergeTarget
            THEN /\ ~last.threw
                 /\ heap[i].proto = last.pre[i].proto
                 /\ \A k \in Keys \ {"x", "y"} : heap[i].props[k] = last.pre[i].props[k]
                 /\ heap[i].props["x"] = Result["x"]
                 /\ heap[i].props["y"] = Result["y"]
            ELSE heap[i] = last.pre[i]

\* an object with x and no y was passed and now holds the inferred y
FrameWitness ==
    /\ Returned
    /\ last.op = "Hex"
    /\ isObject(last.xOrProps)
    /\ ArgProps(last.xOrProps)["x"] = Num(1)
    /\ ArgProps(last.xOrProps)["y"] = Undefined
    /\ heap[last.xOrProps.v].props["y"] = Num(1)
    /\ heap[last.xOrProps.v].props["custom"] = Num(7)

====
